---- MODULE Spec2Model ----
(***************************************************************************)
(* Model of src/src/algorithm.ts, the Leitner flashcard bucket algorithm.  *)
(*                                                                         *)
(* JavaScript Set objects are mutable and shared by reference, so they are *)
(* modelled as a heap: heap[r] is the set of cards held by the Set object  *)
(* with reference r.  A BucketMap (a JavaScript Map) is a sequence of      *)
(* entries [key, ref] in insertion order; the Map objects themselves are   *)
(* never mutated after they are returned, so they are modelled by value.   *)
(* An Array<Set<Flashcard>> handed to getBucketRange and practice is a     *)
(* sequence of card sets, index i of the array being position i + 1.       *)
(***************************************************************************)
EXTENDS Integers, Sequences, FiniteSets

\* ---------------------------------------------------------------- bounds
NumCards == 2
MaxBucket == 2
MaxLen == 4
MaxDay == 5
MaxHistory == 2

Cards == 1..NumCards

\* AnswerDifficulty (flashcards.ts): the ordered enumeration Wrong < Hard < Easy.
Wrong == 0
Hard == 1
Easy == 2
AnswerDifficulty == {Wrong, Hard, Easy}

\* The absent value (undefined) and a present value x.
Undefined == <<>>
Some(x) == <<x>>

\* The null that Array.prototype.fill writes (never a Set reference: those start at 1).
Null == 0

VARIABLES heap, buckets, schedule, history, last
vars == <<heap, buckets, schedule, history, last>>

\* ------------------------------------------------------------ Map helpers
\* Map.prototype.has
MapHas(m, k) == \E i \in 1..Len(m) : m[i].key = k

\* Map.prototype.get, for a key the map has
MapGet(m, k) == m[CHOOSE i \in 1..Len(m) : m[i].key = k].ref

\* Map.prototype.set: overwrite in place, or append in insertion order
MapSet(m, k, r) ==
  IF MapHas(m, k)
  THEN [i \in 1..Len(m) |-> IF m[i].key = k THEN [key |-> k, ref |-> r] ELSE m[i]]
  ELSE Append(m, [key |-> k, ref |-> r])

\* Math.max over a sequence of numbers and one more argument
RECURSIVE MathMax(_, _)
MathMax(keys, acc) ==
  IF keys = <<>> THEN acc
  ELSE MathMax(Tail(keys), IF Head(keys) > acc THEN Head(keys) ELSE acc)

\* Array.from(buckets.keys())
MapKeys(m) == [i \in 1..Len(m) |-> m[i].key]

\* ---------------------------------------------------------- toBucketSets
\* new Array(n).fill(null): n nulls
ArrayFillNull(n) == [i \in 1..n |-> Null]

\* .map(() => new Set<Flashcard>()): one fresh empty Set object per element
MapNewSetNoOp(h, arr) == [heap |-> h, array |-> arr]
MapNewSet(h, arr) ==
  [heap  |-> h \o [i \in 1..Len(arr) |-> {}],
   array |-> [i \in 1..Len(arr) |-> Len(h) + i]]

\* buckets.forEach((flashcards, bucketNumber) => result[bucketNumber] = flashcards)
RECURSIVE ForEachAssign(_, _, _)
ForEachAssign(m, i, result) ==
  IF i > Len(m) THEN result
  ELSE ForEachAssign(m, i + 1, [result EXCEPT ![m[i].key + 1] = m[i].ref])

toBucketSets(h, m) ==
  LET maxBucketNumber == MathMax(MapKeys(m), 0)
      fresh == MapNewSet(h, ArrayFillNull(maxBucketNumber + 1))
  IN  [heap |-> fresh.heap, array |-> ForEachAssign(m, 1, fresh.array)]

\* ------------------------------------------------------- getBucketRange
\* buckets[i]: undefined past the end of the array
ArrayAt(s, i) == IF i >= 0 /\ i < Len(s) THEN Some(s[i + 1]) ELSE Undefined

\* bucket instanceof Set
InstanceOfSet(x) == x # Undefined

RECURSIVE RangeLoop(_, _, _, _)
RangeLoop(s, i, minBucket, maxBucket) ==
  IF ~(i < Len(s)) THEN [minBucket |-> minBucket, maxBucket |-> maxBucket]
  ELSE LET bucket == ArrayAt(s, i)
       IN  IF InstanceOfSet(bucket) /\ Cardinality(bucket[1]) > 0
           THEN RangeLoop(s, i + 1, IF minBucket = -1 THEN i ELSE minBucket, i)
           ELSE RangeLoop(s, i + 1, minBucket, maxBucket)

getBucketRangeFirstOnly(s) ==
  LET r == RangeLoop(s, 0, -1, -1)
  IN  IF r.minBucket = -1 THEN Undefined
      ELSE Some([minBucket |-> r.minBucket, maxBucket |-> r.minBucket])
getBucketRange(s) ==
  LET r == RangeLoop(s, 0, -1, -1)
  IN  IF r.minBucket = -1 THEN Undefined ELSE Some(r)

\* ------------------------------------------------------------- practice
RECURSIVE PracticeLoop(_, _, _, _)
PracticeLoop(s, day, i, practiceSet) ==
  IF ~(i < day) THEN practiceSet
  ELSE LET bucket == ArrayAt(s, i)
       IN  PracticeLoop(s, day, i + 1,
                        IF InstanceOfSet(bucket) THEN practiceSet \cup bucket[1]
                        ELSE practiceSet)

practiceInclusive(s, day) == PracticeLoop(s, day + 1, 0, {})
practice(s, day) == PracticeLoop(s, day, 0, {})

\* --------------------------------------------------------------- update
\* updatedBuckets.forEach(...): the last bucket holding the card wins
RECURSIVE FindCurrentBucket(_, _, _, _, _)
FindCurrentBucket(h, m, card, i, currentBucket) ==
  IF i > Len(m) THEN currentBucket
  ELSE FindCurrentBucket(h, m, card, i + 1,
         IF card \in h[m[i].ref] THEN Some(m[i].key) ELSE currentBucket)

\* the switch on difficulty
NewBucketNoFloor(currentBucket, difficulty) ==
  CASE difficulty = Wrong -> currentBucket - 1
    [] difficulty = Hard  -> currentBucket
    [] difficulty = Easy  -> currentBucket + 1
    [] OTHER              -> currentBucket
NewBucket(currentBucket, difficulty) ==
  CASE difficulty = Wrong -> MathMax(<<currentBucket - 1>>, 0)
    [] difficulty = Hard  -> currentBucket
    [] difficulty = Easy  -> currentBucket + 1
    [] OTHER              -> currentBucket

\* updatedBuckets.get(currentBucket)?.delete(card)
DeleteCardKeep(h, m, currentBucket, card) == h
DeleteCard(h, m, currentBucket, card) ==
  IF MapHas(m, currentBucket)
  THEN [h EXCEPT ![MapGet(m, currentBucket)] = @ \ {card}]
  ELSE h

\* if (!updatedBuckets.has(newBucket)) updatedBuckets.set(newBucket, new Set())
EnsureBucket(h, m, newBucket) ==
  IF ~MapHas(m, newBucket)
  THEN [heap |-> Append(h, {}), map |-> MapSet(m, newBucket, Len(h) + 1)]
  ELSE [heap |-> h, map |-> m]

\* updatedBuckets.get(newBucket)?.add(card)
AddCard(h, m, newBucket, card) ==
  IF MapHas(m, newBucket)
  THEN [h EXCEPT ![MapGet(m, newBucket)] = @ \cup {card}]
  ELSE h

\* the body of update once the card's bucket is known
MoveCard(h, updatedBuckets, currentBucket, card, difficulty) ==
  LET newBucket == NewBucket(currentBucket, difficulty)
      h1 == DeleteCard(h, updatedBuckets, currentBucket, card)
      e  == EnsureBucket(h1, updatedBuckets, newBucket)
      h2 == AddCard(e.heap, e.map, newBucket, card)
  IN  [heap |-> h2, ret |-> e.map]

\* card not found: console.error(...); return buckets
NotFoundAddsToZero(h, m, card) ==
  LET e == EnsureBucket(h, m, 0)
  IN  [heap |-> AddCard(e.heap, e.map, 0, card), ret |-> e.map]
NotFound(h, m, card) == [heap |-> h, ret |-> m]

\* Map.prototype.delete
MapDelete(m, k) == SelectSeq(m, LAMBDA e : e.key # k)

updateDropsEmptyOrigin(h, m, card, difficulty) ==
  LET currentBucket == FindCurrentBucket(h, m, card, 1, Undefined)
  IN  IF currentBucket = Undefined THEN NotFound(h, m, card)
      ELSE LET r == MoveCard(h, m, currentBucket[1], card, difficulty)
           IN  IF r.heap[MapGet(r.ret, currentBucket[1])] = {}
               THEN [heap |-> r.heap, ret |-> MapDelete(r.ret, currentBucket[1])]
               ELSE r
update(h, m, card, difficulty) ==
  LET updatedBuckets == m
      currentBucket == FindCurrentBucket(h, updatedBuckets, card, 1, Undefined)
  IN  IF currentBucket = Undefined THEN NotFound(h, m, card)
      ELSE MoveCard(h, updatedBuckets, currentBucket[1], card, difficulty)

\* ------------------------------------------------------ computeProgress
\* for (const bucket of buckets.values()) totalFlashcards += bucket.size
RECURSIVE TotalLoop(_, _, _, _)
TotalLoop(h, m, i, totalFlashcards) ==
  IF i > Len(m) THEN totalFlashcards
  ELSE TotalLoop(h, m, i + 1, totalFlashcards + Cardinality(h[m[i].ref]))

\* for (const entry of history) if (entry.difficulty >= Hard) correctly += 1
RECURSIVE CorrectLoopEasyOnly(_, _, _)
CorrectLoopEasyOnly(hist, i, correct) ==
  IF i > Len(hist) THEN correct
  ELSE CorrectLoopEasyOnly(hist, i + 1,
         IF hist[i].difficulty > Hard THEN correct + 1 ELSE correct)
RECURSIVE CorrectLoop(_, _, _)
CorrectLoop(hist, i, correctlyAnsweredFlashcards) ==
  IF i > Len(hist) THEN correctlyAnsweredFlashcards
  ELSE CorrectLoop(hist, i + 1,
         IF hist[i].difficulty >= Hard THEN correctlyAnsweredFlashcards + 1
         ELSE correctlyAnsweredFlashcards)

\* The returned number is kept as the exact quotient num / den.
computeProgressEasyOnly(h, m, hist) ==
  LET totalFlashcards == TotalLoop(h, m, 1, 0)
      correct == CorrectLoopEasyOnly(hist, 1, 0)
  IN  IF totalFlashcards = 0 THEN [num |-> 0, den |-> 1]
      ELSE [num |-> correct * 100, den |-> totalFlashcards]
computeProgress(h, m, hist) ==
  LET totalFlashcards == TotalLoop(h, m, 1, 0)
      correctlyAnsweredFlashcards == CorrectLoop(hist, 1, 0)
  IN  IF totalFlashcards = 0 THEN [num |-> 0, den |-> 1]
      ELSE [num |-> correctlyAnsweredFlashcards * 100, den |-> totalFlashcards]

\* ---------------------------------------------------------- state machine
\* Stores a caller builds, as the tests do with new Map([[k, new Set(...)], ...]):
\* bucket numbers 0..MaxBucket inserted in ascending order, one Set object per
\* bucket, no card in two buckets.  Other insertion orders arise from update.
KeySeqs ==
  {ks \in UNION {[1..n -> 0..MaxBucket] : n \in 0..(MaxBucket + 1)} :
     \A i, j \in DOMAIN ks : i < j => ks[i] < ks[j]}

Disjoint(f) == \A i, j \in DOMAIN f : i # j => f[i] \cap f[j] = {}

InitStore ==
  \E ks \in KeySeqs :
    \E f \in [1..Len(ks) -> SUBSET Cards] :
      /\ Disjoint(f)
      /\ heap = f
      /\ buckets = [i \in 1..Len(ks) |-> [key |-> ks[i], ref |-> i]]

Schedules == UNION {[1..n -> SUBSET Cards] : n \in 0..MaxLen}

HistoryEntries == [card : Cards, difficulty : AnswerDifficulty]
Histories == UNION {[1..n -> HistoryEntries] : n \in 0..MaxHistory}

MaxKey(m) == MathMax(MapKeys(m), 0)

Init ==
  /\ InitStore
  /\ schedule = <<>>
  /\ history = <<>>
  /\ last = [op |-> "init"]

\* The caller practises a card and keeps the returned store as its store.
Update(card, difficulty) ==
  LET r == update(heap, buckets, card, difficulty)
  IN  /\ MaxKey(r.ret) <= MaxBucket
      /\ heap' = r.heap
      /\ buckets' = r.ret
      /\ last' = [op |-> "update", buckets |-> buckets, heap0 |-> heap,
                  card |-> card, difficulty |-> difficulty, ret |-> r.ret]
      /\ UNCHANGED <<schedule, history>>

\* The derived view is recomputed from the store; its fresh empty Sets live
\* only in the returned array, so they are kept with the call's result.
ToBucketSets ==
  LET r == toBucketSets(heap, buckets)
  IN  /\ last' = [op |-> "toBucketSets", buckets |-> buckets, heap0 |-> heap,
                  result |-> r.array, heap1 |-> r.heap]
      /\ UNCHANGED <<heap, buckets, schedule, history>>

Next ==
  \/ \E card \in Cards : \E difficulty \in AnswerDifficulty : Update(card, difficulty)
  \/ ToBucketSets

Spec == Init /\ [][Next]_vars

\* getBucketRange and practice over every schedule within the bounds.
InitSchedule ==
  /\ schedule \in Schedules
  /\ history = <<>>
  /\ heap = <<>>
  /\ buckets = <<>>
  /\ last = [op |-> "init"]

GetBucketRange ==
  /\ last' = [op |-> "getBucketRange", result |-> getBucketRange(schedule)]
  /\ UNCHANGED <<heap, buckets, schedule, history>>

Practice(day) ==
  /\ last' = [op |-> "practice", day |-> day, result |-> practice(schedule, day)]
  /\ UNCHANGED <<heap, buckets, schedule, history>>

NextSchedule ==
  \/ GetBucketRange
  \/ \E day \in 0..MaxDay : Practice(day)

SpecSchedule == InitSchedule /\ [][NextSchedule]_vars

\* computeProgress over every store and every history within the bounds.
InitProgress ==
  /\ InitStore
  /\ history \in Histories
  /\ schedule = <<>>
  /\ last = [op |-> "init"]

ComputeProgress ==
  /\ last' = [op |-> "computeProgress",
              result |-> computeProgress(heap, buckets, history)]
  /\ UNCHANGED <<heap, buckets, schedule, history>>

NextProgress == ComputeProgress

SpecProgress == InitProgress /\ [][NextProgress]_vars

\* ------------------------------------------------------- claim vocabulary
\* A store by value: its bucket numbers, and the cards of bucket k under heap h.
Keys(m) == {m[i].key : i \in 1..Len(m)}
CardsOf(m, h, k) == h[MapGet(m, k)]
BucketsOf(m, h, c) == {k \in Keys(m) : c \in CardsOf(m, h, k)}
StoreValue(m, h) == [k \in Keys(m) |-> CardsOf(m, h, k)]
Max(S) == CHOOSE x \in S : \A y \in S : y <= x
Min(S) == CHOOSE x \in S : \A y \in S : x <= y
Destination(k, d) ==
  IF d = Wrong THEN (IF k = 0 THEN 0 ELSE k - 1)
  ELSE IF d = Hard THEN k ELSE k + 1
IsUpdate == last.op = "update"
\* the bucket of the input store that held the card when update was called
Origin == BucketsOf(last.buckets, last.heap0, last.card)

\* C1: after update(b, c, d) returns, the store b that was passed in still has the
\* same bucket numbers and every one of its buckets holds the same cards as before.
C1_InputNeverMutated ==
  IsUpdate /\ Origin # {} =>
    StoreValue(last.buckets, heap) = StoreValue(last.buckets, last.heap0)

\* C2: toBucketSets(b) has length 0 iff b has no bucket numbers; for a non-empty
\* store the length is the largest bucket number + 1.
C2_LengthZeroIffEmpty ==
  last.op = "toBucketSets" =>
    /\ (Len(last.result) = 0) <=> (Keys(last.buckets) = {})
    /\ Keys(last.buckets) # {} => Len(last.result) = Max(Keys(last.buckets)) + 1

\* C3: in the store update returns, the card is in exactly one bucket: max(0, k-1)
\* for Wrong, k for Hard, k+1 for Easy, where k is the bucket that held it; the
\* destination is never below bucket 0.
C3_TransitionRule ==
  IsUpdate =>
    \A k \in Origin :
      /\ BucketsOf(last.ret, heap, last.card) = {Destination(k, last.difficulty)}
      /\ \A n \in BucketsOf(last.ret, heap, last.card) : n >= 0

C3_Witness ==
  /\ IsUpdate
  /\ last.difficulty = Wrong
  /\ Origin = {0}
  /\ BucketsOf(last.ret, heap, last.card) = {0}

\* C4: update with a card that is in no bucket returns a store equal by value to
\* the input: same bucket numbers, same cards, the card added nowhere.
C4_NotFoundNoOp ==
  IsUpdate /\ Origin = {} =>
    /\ StoreValue(last.ret, heap) = StoreValue(last.buckets, last.heap0)
    /\ BucketsOf(last.ret, heap, last.card) = {}
    /\ Keys(last.ret) = Keys(last.buckets)

C4_Witness ==
  /\ IsUpdate
  /\ Origin = {}
  /\ Keys(last.buckets) # {}
  /\ \E k \in Keys(last.buckets) : CardsOf(last.buckets, last.heap0, k) # {}

\* C5: along any chain of update calls from a store with no card in two buckets,
\* no card is in two buckets of the current store.
C5_NoDuplicate ==
  \A c \in Cards : Cardinality(BucketsOf(buckets, heap, c)) <= 1

C5_Witness ==
  /\ IsUpdate
  /\ \E k \in Origin :
       /\ Destination(k, last.difficulty) # k
       /\ Destination(k, last.difficulty) \in Keys(last.buckets)
       /\ Cardinality(CardsOf(buckets, heap, Destination(k, last.difficulty))) >= 2

\* C6: the store update returns keeps every bucket number of the input (an emptied
\* origin stays as an empty set), adds at most the destination, leaves every other
\* bucket's cards as they were, and equals the input by value when d = Hard.
C6_FrameRule ==
  IsUpdate =>
    \A k \in Origin :
      LET dest == Destination(k, last.difficulty)
      IN  /\ Keys(last.buckets) \subseteq Keys(last.ret)
          /\ Keys(last.ret) \subseteq Keys(last.buckets) \cup {dest}
          /\ \A n \in Keys(last.buckets) \ {k, dest} :
               CardsOf(last.ret, heap, n) = CardsOf(last.buckets, last.heap0, n)
          /\ last.difficulty = Hard =>
               StoreValue(last.ret, heap) = StoreValue(last.buckets, last.heap0)

C6_Witness ==
  /\ IsUpdate
  /\ last.difficulty # Hard
  /\ \E k \in Origin :
       /\ Destination(k, last.difficulty) # k
       /\ k \in Keys(last.ret)
       /\ CardsOf(last.ret, heap, k) = {}
       /\ \E n \in Keys(last.buckets) \ {k, Destination(k, last.difficulty)} :
            CardsOf(last.ret, heap, n) # {}

\* C7: practice(s, d) is the union of the sets at the indices 0..d-1 of s that
\* exist: empty for d = 0, index d excluded, everything for d >= length(s).
C7_PracticeUnion ==
  last.op = "practice" =>
    /\ last.result =
         UNION {schedule[i + 1] : i \in {j \in 0..(last.day - 1) : j < Len(schedule)}}
    /\ last.day = 0 => last.result = {}
    /\ last.day >= Len(schedule) =>
         last.result = UNION {schedule[i] : i \in 1..Len(schedule)}

C7_Witness ==
  /\ last.op = "practice"
  /\ last.day > 0
  /\ last.day < Len(schedule)
  /\ ~(schedule[last.day + 1] \subseteq last.result)
  /\ last.result # {}

\* C8: getBucketRange(s) is undefined iff every set of s is empty (or s has length
\* 0); otherwise it is the lowest and the highest index holding a non-empty set.
NonEmptyIndices == {i \in 0..(Len(schedule) - 1) : schedule[i + 1] # {}}
C8_RangeOfNonEmpty ==
  last.op = "getBucketRange" =>
    /\ (last.result = Undefined) <=> (NonEmptyIndices = {})
    /\ NonEmptyIndices # {} =>
         /\ last.result # Undefined
         /\ last.result[1].minBucket = Min(NonEmptyIndices)
         /\ last.result[1].maxBucket = Max(NonEmptyIndices)
         /\ last.result[1].minBucket <= last.result[1].maxBucket

C8_Witness ==
  /\ last.op = "getBucketRange"
  /\ last.result # Undefined
  /\ last.result[1].minBucket > 0
  /\ last.result[1].maxBucket > last.result[1].minBucket + 1
  /\ schedule[last.result[1].minBucket + 2] = {}

\* C9: in toBucketSets(b) every bucket number n of b is at index n with exactly the
\* cards of bucket n, every other index holds an empty set (never null), and b is
\* left unchanged.
C9_IndexContents ==
  last.op = "toBucketSets" =>
    /\ \A n \in Keys(last.buckets) :
         /\ n + 1 \in DOMAIN last.result
         /\ last.result[n + 1] \in DOMAIN last.heap1
         /\ last.heap1[last.result[n + 1]] = CardsOf(last.buckets, last.heap0, n)
    /\ \A i \in DOMAIN last.result :
         (i - 1) \notin Keys(last.buckets) =>
           /\ last.result[i] # Null
           /\ last.result[i] \in DOMAIN last.heap1
           /\ last.heap1[last.result[i]] = {}
    /\ StoreValue(last.buckets, last.heap1) = StoreValue(last.buckets, last.heap0)

C9_Witness ==
  /\ last.op = "toBucketSets"
  /\ \E i \in DOMAIN last.result :
       /\ (i - 1) \notin Keys(last.buckets)
       /\ \E n \in Keys(last.buckets) : n > i - 1 /\ CardsOf(last.buckets, last.heap0, n) # {}

\* C10: with totalCards the sum of the bucket sizes and successfulCount the number
\* of history entries rated Hard or Easy, computeProgress returns 0 when
\* totalCards = 0 and otherwise p with p * totalCards = successfulCount * 100,
\* which exceeds 100 when successfulCount > totalCards.
TotalCards == Cardinality({kc \in Keys(buckets) \X Cards : kc[2] \in CardsOf(buckets, heap, kc[1])})
SuccessfulCount(h) == Cardinality({i \in 1..Len(h) : h[i].difficulty \in {Hard, Easy}})
C10_ProgressQuotient ==
  last.op = "computeProgress" =>
    /\ last.result.den > 0
    /\ TotalCards = 0 => last.result.num = 0
    /\ TotalCards # 0 =>
         last.result.num * TotalCards = SuccessfulCount(history) * 100 * last.result.den
    /\ (TotalCards # 0 /\ SuccessfulCount(history) > TotalCards) =>
         last.result.num > 100 * last.result.den

C10_Witness ==
  /\ last.op = "computeProgress"
  /\ TotalCards > 0
  /\ SuccessfulCount(history) > TotalCards
  /\ \E i \in 1..Len(history) :
       /\ history[i].difficulty = Hard
       /\ BucketsOf(buckets, heap, history[i].card) = {}

====
